---- MODULE Spec2Model ----
(***************************************************************************)
(* Model of the movie-dataset aggregation layer: the provisioning step of  *)
(* src/src/__init__.py, the loader and the three aggregators of            *)
(* src/src/movie_dataset.py (MovieDataset), and the way src/app.py and the *)
(* tests construct the dataset object and call the aggregators.            *)
(*                                                                         *)
(* Files are modelled as text: a row is a record of cells, a numeric cell  *)
(* is a sequence of characters, a genres cell is a sequence of tokens of a *)
(* Python literal.  pandas' read_csv, to_numeric, groupby/count,           *)
(* value_counts and nlargest and Python's ast.literal_eval and Counter are *)
(* modelled by what they do on these values.  Heights are whole numbers.   *)
(***************************************************************************)
EXTENDS Integers, Sequences, FiniteSets, TLC

VARIABLES
    dataDir,            \* the directory DATA_DIR ("data") exists
    archive,            \* DATA_FILE (data/MovieSummaries.tar.gz) exists
    movieFile,          \* EXTRACTED_DIR / "movie.metadata.tsv" exists
    charFile,           \* EXTRACTED_DIR / "character.metadata.tsv" exists
    movieRows,          \* the text rows of movie.metadata.tsv (its genres cells)
    charRows,           \* the text rows of character.metadata.tsv
    prov,               \* what the last download_and_extract_data() did
    load,               \* what MovieDataset() did
    movie_metadata,     \* attribute self.movie_metadata
    character_metadata, \* attribute self.character_metadata
    ret                 \* the last aggregator call: arguments and outcome

vars == <<dataDir, archive, movieFile, charFile, movieRows, charRows, prov, load,
          movie_metadata, character_metadata, ret>>

-----------------------------------------------------------------------------
(* Bounds of the model.                                                    *)

MaxMovies == 3

MaxChars == 2

-----------------------------------------------------------------------------
(* Values.                                                                 *)

\* A Python argument: its type and its value (i for numbers, s for strings).
Arg(t, i, s) == [t |-> t, i |-> i, s |-> s]

PyInt(i) == Arg("int", i, "")

PyFloat(i) == Arg("float", i, "")

PyStr(s) == Arg("str", 0, s)

PyNone == Arg("NoneType", 0, "")

\* isinstance(x, int)
IsInstanceInt(x) == x.t = "int"

\* isinstance(x, (int, float))
IsInstanceNumber(x) == x.t \in {"int", "float"}

\* isinstance(x, str)
IsInstanceStr(x) == x.t = "str"

\* An attribute that was never assigned.
Unset == [set |-> FALSE, rows |-> <<>>]

Frame(rows) == [set |-> TRUE, rows |-> rows]

\* Cells of a loaded table: a missing value, a string, a number.  A text cell
\* keeps its characters in s; a string cell keeps its string in s.
NaNText == [t |-> "nan", n |-> 0, s |-> <<>>]

NaNStr == [t |-> "nan", n |-> 0, s |-> ""]

TextCell(chars) == [t |-> "str", n |-> 0, s |-> chars]

StrCell(str) == [t |-> "str", n |-> 0, s |-> str]

NumCell(n) == [t |-> "num", n |-> n, s |-> <<>>]

IsNaN(cell) == cell.t = "nan"

-----------------------------------------------------------------------------
(* Text to number: what read_csv's type inference and pd.to_numeric accept. *)

DigitChars == <<"0", "1", "2", "3", "4", "5", "6", "7", "8", "9">>

IsDigit(c) == \E i \in 1..Len(DigitChars) : DigitChars[i] = c

DigitVal(c) == (CHOOSE i \in 1..Len(DigitChars) : DigitChars[i] = c) - 1

AllDigits(chars) == \A i \in 1..Len(chars) : IsDigit(chars[i])

RECURSIVE DigitsValue(_)
DigitsValue(chars) ==
    IF chars = <<>> THEN 0
    ELSE 10 * DigitsValue(SubSeq(chars, 1, Len(chars) - 1)) + DigitVal(chars[Len(chars)])

\* Numeric text: one digit or more.
IsNumericText(chars) == chars # <<>> /\ AllDigits(chars)

NumericValue(chars) == DigitsValue(chars)

-----------------------------------------------------------------------------
(* Provisioning: src/src/__init__.py.                                      *)

\* EXTRACTED_DIR = DATA_DIR: the extracted directory exists when DATA_DIR does.
ExtractedDirExists(dir) == dir

\* download_and_extract_data(): mkdir, then download and extract under the
\* guard `not EXTRACTED_DIR.exists()`, which is read after the mkdir.
ProvisionRun(dir, arch) ==
    LET dirAfterMkdir == TRUE
        extract == ~ExtractedDirExists(dirAfterMkdir)
        download == extract /\ ~arch
    IN  [dir |-> dirAfterMkdir, download |-> download, extract |-> extract]

\* The call at the end of the module runs when the package src is imported
\* (app.py and the tests import src.movie_dataset); it may be called again.
download_and_extract_data ==
    LET r == ProvisionRun(dataDir, archive)
    IN  /\ dataDir' = r.dir
        /\ archive' = (archive \/ r.download)
        /\ movieFile' = (movieFile \/ r.extract)
        /\ charFile' = (charFile \/ r.extract)
        /\ prov' = [called |-> TRUE, downloaded |-> r.download, extracted |-> r.extract]
        /\ UNCHANGED <<movieRows, charRows, load, movie_metadata, character_metadata, ret>>

-----------------------------------------------------------------------------
(* Loader: MovieDataset.__init__ and _load_data.                           *)

\* read_csv of a text column: an empty field is a missing value.
ReadTextCell(chars) == IF chars = <<>> THEN NaNText ELSE TextCell(chars)

ReadStrCell(str) == IF str = "" THEN NaNStr ELSE StrCell(str)

\* read_csv infers a column's type: a column whose fields are all empty or
\* numeric becomes numbers, any other column stays text.
ColumnIsNumeric(texts) ==
    \A i \in 1..Len(texts) : texts[i] = <<>> \/ IsNumericText(texts[i])

ReadInferredCell(chars, numeric) ==
    IF chars = <<>> THEN NaNText
    ELSE IF numeric THEN NumCell(NumericValue(chars))
    ELSE TextCell(chars)

ReadMovieTable(rows) ==
    [i \in 1..Len(rows) |-> [genres |-> ReadTextCell(rows[i].genres)]]

ReadCharacterTable(rows) ==
    LET idNumeric == ColumnIsNumeric([i \in 1..Len(rows) |-> rows[i].wiki_character_id])
        heightNumeric == ColumnIsNumeric([i \in 1..Len(rows) |-> rows[i].actor_height])
    IN  [i \in 1..Len(rows) |->
            [wiki_character_id |-> ReadInferredCell(rows[i].wiki_character_id, idNumeric),
             freebase_movie_id |-> ReadStrCell(rows[i].freebase_movie_id),
             actor_gender |-> ReadStrCell(rows[i].actor_gender),
             actor_height |-> ReadInferredCell(rows[i].actor_height, heightNumeric)]]

\* _load_data: the two read_csv calls inside one try; FileNotFoundError is
\* caught and printed, any other exception (an empty file: EmptyDataError)
\* leaves the constructor.
load_data(mFile, mRows, cFile, cRows) ==
    IF ~mFile THEN
        [raised |-> "", movie |-> Unset, character |-> Unset]
    ELSE IF mRows = <<>> THEN
        [raised |-> "EmptyDataError", movie |-> Unset, character |-> Unset]
    ELSE IF ~cFile THEN
        [raised |-> "", movie |-> Frame(ReadMovieTable(mRows)), character |-> Unset]
    ELSE IF cRows = <<>> THEN
        [raised |-> "EmptyDataError", movie |-> Unset, character |-> Unset]
    ELSE
        [raised |-> "", movie |-> Frame(ReadMovieTable(mRows)),
         character |-> Frame(ReadCharacterTable(cRows))]

\* movie_data = load_dataset() in app.py, MovieDataset() in the tests.  An
\* exception that leaves the constructor leaves no object: app.py reports it
\* and stops.
MovieDataset ==
    /\ prov.called
    /\ ~load.attempted
    /\ LET r == load_data(movieFile, movieRows, charFile, charRows)
       IN  /\ load' = [attempted |-> TRUE,
                       missing |-> ~movieFile \/ ~charFile,
                       raised |-> r.raised,
                       constructed |-> r.raised = ""]
           /\ movie_metadata' = r.movie
           /\ character_metadata' = r.character
    /\ UNCHANGED <<dataDir, archive, movieFile, charFile, movieRows, charRows, prov, ret>>

-----------------------------------------------------------------------------
(* Genre aggregator: MovieDataset.movie_type.                              *)

\* A genres field is the text of a Python literal, kept as its tokens: the
\* brackets, "key": "name" pairs of a dict display, items of a list display.
Tok(k, id, name) == [k |-> k, id |-> id, name |-> name]

LBrace == Tok("{", "", "")

RBrace == Tok("}", "", "")

LBracket == Tok("[", "", "")

RBracket == Tok("]", "", "")

Pair(id, name) == Tok("pair", id, name)

Item(name) == Tok("item", "", name)

Inner(toks) == SubSeq(toks, 2, Len(toks) - 1)

AllOfKind(toks, k) == \A i \in 1..Len(toks) : toks[i].k = k

\* A dict display keeps, for a key written twice, the first position and the
\* last value.
DictOf(pairs) ==
    LET first(i) == \A j \in 1..(i - 1) : pairs[j].id # pairs[i].id
        lastOf(i) == CHOOSE j \in i..Len(pairs) :
                        /\ pairs[j].id = pairs[i].id
                        /\ \A l \in (j + 1)..Len(pairs) : pairs[l].id # pairs[i].id
        keep == SelectSeq([i \in 1..Len(pairs) |-> i], first)
    IN  [i \in 1..Len(keep) |-> Pair(pairs[keep[i]].id, pairs[lastOf(keep[i])].name)]

\* ast.literal_eval(item): the value of the literal, or an exception when the
\* text is no literal.
literal_eval(toks) ==
    IF Len(toks) >= 2 /\ toks[1] = LBrace /\ toks[Len(toks)] = RBrace
       /\ AllOfKind(Inner(toks), "pair")
    THEN [raised |-> FALSE, type |-> "dict", items |-> DictOf(Inner(toks))]
    ELSE IF Len(toks) >= 2 /\ toks[1] = LBracket /\ toks[Len(toks)] = RBracket
            /\ AllOfKind(Inner(toks), "item")
    THEN [raised |-> FALSE, type |-> "list", items |-> Inner(toks)]
    ELSE [raised |-> TRUE, type |-> "", items |-> <<>>]

\* cnt.update(values): a Counter keeps its keys in the order they came in.
CounterAdd(cnt, name) ==
    IF \E i \in 1..Len(cnt) : cnt[i].Genre = name
    THEN [i \in 1..Len(cnt) |->
            IF cnt[i].Genre = name
            THEN [Genre |-> name, Count |-> cnt[i].Count + 1] ELSE cnt[i]]
    ELSE Append(cnt, [Genre |-> name, Count |-> 1])

RECURSIVE CounterUpdate(_, _)
CounterUpdate(cnt, items) ==
    IF items = <<>> THEN cnt
    ELSE CounterUpdate(CounterAdd(cnt, items[1].name), Tail(items))

\* One pass of the for loop over self.movie_metadata["genres"], from row i.
\* genre_dict.values() is outside the try: a literal that is no dict raises
\* AttributeError out of the loop.
RECURSIVE TallyFrom(_, _, _)
TallyFrom(rows, i, cnt) ==
    IF i > Len(rows) THEN [raised |-> "", cnt |-> cnt, work |-> Len(rows)]
    ELSE IF IsNaN(rows[i].genres) THEN TallyFrom(rows, i + 1, cnt)
    ELSE LET lit == literal_eval(rows[i].genres.s)
         IN  IF lit.raised THEN TallyFrom(rows, i + 1, cnt)
             ELSE IF lit.type # "dict"
             THEN [raised |-> "AttributeError", cnt |-> cnt, work |-> i]
             ELSE TallyFrom(rows, i + 1, CounterUpdate(cnt, lit.items))

\* df.nlargest(N, "Count"): the N rows of largest Count, largest first, rows of
\* equal Count in their order in df (keep="first"); no row when N <= 0.
RECURSIVE nlargest(_, _)
nlargest(n, rows) ==
    IF n <= 0 \/ rows = <<>> THEN <<>>
    ELSE LET best == CHOOSE i \in 1..Len(rows) :
                        /\ \A j \in 1..Len(rows) : rows[j].Count <= rows[i].Count
                        /\ \A j \in 1..(i - 1) : rows[j].Count < rows[i].Count
             rest == [j \in 1..(Len(rows) - 1) |-> IF j < best THEN rows[j] ELSE rows[j + 1]]
         IN  <<rows[best]>> \o nlargest(n - 1, rest)

\* The type check of N.
ValidMovieTypeArg(N) == IsInstanceInt(N)

\* movie_type(N).  pd.DataFrame([], columns=[...]) has columns of dtype
\* object, on which nlargest raises TypeError.
MovieTypeRun(mm, N) ==
    IF ~ValidMovieTypeArg(N)
    THEN [outcome |-> "ValueError", value |-> <<>>, work |-> 0]
    ELSE IF ~mm.set
    THEN [outcome |-> "AttributeError", value |-> <<>>, work |-> 0]
    ELSE LET t == TallyFrom(mm.rows, 1, <<>>)
         IN  IF t.raised # ""
             THEN [outcome |-> t.raised, value |-> <<>>, work |-> t.work]
             ELSE IF t.cnt = <<>>
             THEN [outcome |-> "TypeError", value |-> <<>>, work |-> t.work]
             ELSE [outcome |-> "ok", value |-> nlargest(N.i, t.cnt), work |-> t.work]

-----------------------------------------------------------------------------
(* Actor-count aggregator: MovieDataset.actor_count.                       *)

\* The movie ids of the model, in the order groupby sorts its keys.
MovieIds == <<"m1", "m2">>

\* groupby("freebase_movie_id"): the keys present, sorted; rows whose key is
\* missing belong to no group.
GroupKeys(rows) ==
    SelectSeq(MovieIds,
              LAMBDA m : \E i \in 1..Len(rows) :
                            ~IsNaN(rows[i].freebase_movie_id) /\ rows[i].freebase_movie_id.s = m)

\* ["wiki_character_id"].count(): per group, the rows whose wiki_character_id
\* is not missing.
GroupCount(rows, m) ==
    Cardinality({i \in 1..Len(rows) :
                    /\ ~IsNaN(rows[i].freebase_movie_id)
                    /\ rows[i].freebase_movie_id.s = m
                    /\ ~IsNaN(rows[i].wiki_character_id)})

ActorCounts(rows) ==
    LET keys == GroupKeys(rows)
    IN  [i \in 1..Len(keys) |-> GroupCount(rows, keys[i])]

\* Rows sorted by Movie_Count, largest first.  pandas leaves the order of
\* equal counts open; the model keeps them in their order of appearance.
RECURSIVE SortByMovieCount(_)
SortByMovieCount(rows) ==
    IF rows = <<>> THEN <<>>
    ELSE LET best == CHOOSE i \in 1..Len(rows) :
                        /\ \A j \in 1..Len(rows) : rows[j].Movie_Count <= rows[i].Movie_Count
                        /\ \A j \in 1..(i - 1) : rows[j].Movie_Count < rows[i].Movie_Count
             rest == [j \in 1..(Len(rows) - 1) |-> IF j < best THEN rows[j] ELSE rows[j + 1]]
         IN  <<rows[best]>> \o SortByMovieCount(rest)

\* value_counts().reset_index() with the two column names.
ValueCounts(counts) ==
    LET first(i) == \A j \in 1..(i - 1) : counts[j] # counts[i]
        keep == SelectSeq([i \in 1..Len(counts) |-> i], first)
        freq(k) == Cardinality({i \in 1..Len(counts) : counts[i] = k})
    IN  SortByMovieCount([i \in 1..Len(keep) |->
            [Number_of_Actors |-> counts[keep[i]], Movie_Count |-> freq(counts[keep[i]])]])

ActorCountRun(cm) ==
    IF ~cm.set
    THEN [outcome |-> "AttributeError", value |-> <<>>, work |-> 0]
    ELSE [outcome |-> "ok", value |-> ValueCounts(ActorCounts(cm.rows)), work |-> Len(cm.rows)]

-----------------------------------------------------------------------------
(* Height filter: MovieDataset.actor_distributions (plot=False).           *)

\* Mutation of CopyFrame: df = self.character_metadata, without the copy.
AliasFrame(rows) ==
    [self |-> rows,
     df |-> [i \in 1..Len(rows) |-> [index |-> i, row |-> rows[i]]],
     alias |-> TRUE]

\* df = self.character_metadata.copy(): df is a new frame whose rows carry
\* their index labels; writes to df do not reach the table of the object.
CopyFrame(rows) ==
    [self |-> rows,
     df |-> [i \in 1..Len(rows) |-> [index |-> i, row |-> rows[i]]],
     alias |-> FALSE]

\* pd.to_numeric(x, errors="coerce")
to_numeric(cell) ==
    IF cell.t = "num" THEN cell
    ELSE IF cell.t = "str" /\ IsNumericText(cell.s) THEN NumCell(NumericValue(cell.s))
    ELSE NaNText

\* df["actor_height"] = pd.to_numeric(df["actor_height"], errors="coerce")
AssignHeight(st) ==
    LET coerce(row) == [row EXCEPT !.actor_height = to_numeric(row.actor_height)]
    IN  [self |-> IF st.alias THEN [i \in 1..Len(st.self) |-> coerce(st.self[i])]
                  ELSE st.self,
         df |-> [i \in 1..Len(st.df) |-> [st.df[i] EXCEPT !.row = coerce(st.df[i].row)]],
         alias |-> st.alias]

\* df.dropna(subset=["actor_height"])
DropNaHeight(df) == SelectSeq(df, LAMBDA r : ~IsNaN(r.row.actor_height))

\* Mutation of InRange: the lower bound exclusive.
InRangeExclusiveMin(h, min_height, max_height) == h > min_height.i /\ h <= max_height.i

\* (df["actor_height"] >= min_height) & (df["actor_height"] <= max_height)
InRange(h, min_height, max_height) == h >= min_height.i /\ h <= max_height.i

FilterRange(df, min_height, max_height) ==
    SelectSeq(df, LAMBDA r : InRange(r.row.actor_height.n, min_height, max_height))

\* Mutation of FilterGender: the gender filter left out.
FilterGenderSkipped(df, gender) == df

\* if gender != "All": df = df[df["actor_gender"] == gender]
FilterGender(df, gender) ==
    IF IsInstanceStr(gender) /\ gender.s = "All" THEN df
    ELSE SelectSeq(df, LAMBDA r : /\ IsInstanceStr(gender)
                                  /\ ~IsNaN(r.row.actor_gender)
                                  /\ r.row.actor_gender.s = gender.s)

\* Mutation of ValidDistributionArgs: max_height left unchecked.
ValidDistributionArgsMinOnly(gender, min_height, max_height) ==
    IsInstanceStr(gender) /\ IsInstanceNumber(min_height)

\* The checks of the arguments at the head of actor_distributions.
ValidDistributionArgs(gender, min_height, max_height) ==
    /\ IsInstanceStr(gender)
    /\ ~(~IsInstanceNumber(min_height) \/ ~IsInstanceNumber(max_height))

\* actor_distributions(gender, min_height, max_height): the outcome, and the
\* table the object holds afterwards.  Comparing a column of numbers with a
\* value that is no number raises TypeError.
ActorDistributionsRun(cm, gender, min_height, max_height) ==
    IF ~ValidDistributionArgs(gender, min_height, max_height)
    THEN [outcome |-> "ValueError", value |-> <<>>, work |-> 0, self |-> cm]
    ELSE IF ~cm.set
    THEN [outcome |-> "AttributeError", value |-> <<>>, work |-> 0, self |-> cm]
    ELSE LET st == AssignHeight(CopyFrame(cm.rows))
             kept == DropNaHeight(st.df)
         IN  IF ~IsInstanceNumber(min_height) \/ ~IsInstanceNumber(max_height)
             THEN [outcome |-> "TypeError", value |-> <<>>, work |-> Len(cm.rows),
                   self |-> Frame(st.self)]
             ELSE [outcome |-> "ok",
                   value |-> FilterGender(FilterRange(kept, min_height, max_height), gender),
                   work |-> Len(cm.rows),
                   self |-> Frame(st.self)]

-----------------------------------------------------------------------------
(* The calls of the aggregators, by app.py and by the tests.               *)

NoCall ==
    [op |-> "", N |-> PyNone, gender |-> PyNone, min_height |-> PyNone,
     max_height |-> PyNone, outcome |-> "", value |-> <<>>, work |-> 0]

NArgs == {PyInt(0 - 1), PyInt(0), PyInt(1), PyInt(2), PyFloat(2), PyStr("ten")}

\* <<gender, min_height, max_height>>
DistributionArgs ==
    ({PyStr("All"), PyStr("F")}
        \X {<<PyInt(0), PyInt(300)>>, <<PyInt(0), PyInt(170)>>, <<PyInt(170), PyFloat(300)>>})
    \cup ({PyStr("f"), PyInt(123)} \X {<<PyInt(0), PyInt(300)>>})
    \cup ({PyStr("All")} \X {<<PyStr("short"), PyInt(300)>>, <<PyInt(0), PyStr("tall")>>})

movie_type ==
    /\ load.constructed
    /\ \E N \in NArgs :
        LET r == MovieTypeRun(movie_metadata, N)
        IN  ret' = [NoCall EXCEPT !.op = "movie_type", !.N = N, !.outcome = r.outcome,
                                  !.value = r.value, !.work = r.work]
    /\ UNCHANGED <<dataDir, archive, movieFile, charFile, movieRows, charRows, prov, load,
                   movie_metadata, character_metadata>>

actor_count ==
    /\ load.constructed
    /\ LET r == ActorCountRun(character_metadata)
       IN  ret' = [NoCall EXCEPT !.op = "actor_count", !.outcome = r.outcome,
                                 !.value = r.value, !.work = r.work]
    /\ UNCHANGED <<dataDir, archive, movieFile, charFile, movieRows, charRows, prov, load,
                   movie_metadata, character_metadata>>

actor_distributions ==
    /\ load.constructed
    /\ \E args \in DistributionArgs :
        LET gender == args[1]
            min_height == args[2][1]
            max_height == args[2][2]
            r == ActorDistributionsRun(character_metadata, gender, min_height, max_height)
        IN  /\ ret' = [NoCall EXCEPT !.op = "actor_distributions", !.gender = gender,
                                     !.min_height = min_height, !.max_height = max_height,
                                     !.outcome = r.outcome, !.value = r.value,
                                     !.work = r.work]
            /\ character_metadata' = r.self
    /\ UNCHANGED <<dataDir, archive, movieFile, charFile, movieRows, charRows, prov, load,
                   movie_metadata>>

Next ==
    \/ download_and_extract_data
    \/ MovieDataset
    \/ movie_type
    \/ actor_count
    \/ actor_distributions

-----------------------------------------------------------------------------
(* Inputs: the files on disk when the program starts.                      *)

SeqsUpTo(S, n) == UNION {[1..k -> S] : k \in 0..n}

GenreCells ==
    { <<>>,
      <<LBrace, RBrace>>,
      <<LBrace, Pair("1", "Drama"), RBrace>>,
      <<LBrace, Pair("2", "Comedy"), RBrace>>,
      <<LBrace, Pair("3", "Action"), RBrace>>,
      <<LBrace, Pair("1", "Drama"), Pair("2", "Comedy"), RBrace>>,
      <<LBrace, Pair("1", "Drama"), Pair("2", "Drama"), RBrace>>,
      <<LBrace, Pair("1", "Drama"), Pair("1", "Comedy"), RBrace>>,
      <<LBrace, Pair("1", "Drama")>>,
      <<LBracket, Item("Drama"), RBracket>> }

MovieRowSet == {[genres |-> g] : g \in GenreCells}

CharRow(id, movie, gender, height) ==
    [wiki_character_id |-> id, freebase_movie_id |-> movie,
     actor_gender |-> gender, actor_height |-> height]

HeightTexts == { <<>>, <<"1", "7", "0">>, <<"5", "1", "0">>, <<"t", "a", "l", "l">> }

CharRowSet ==
    {CharRow(<<"1">>, "m1", g, h) : g \in {"F", "M"}, h \in HeightTexts}
    \cup {CharRow(<<"1">>, "m1", "", <<"1", "7", "0">>)}
    \cup {CharRow(id, m, "F", <<"1", "7", "0">>) : id \in {<<>>, <<"1">>}, m \in {"m1", "m2", ""}}

SampleMovieRows ==
    << [genres |-> <<LBrace, Pair("1", "Drama"), RBrace>>],
       [genres |-> <<LBrace, Pair("1", "Drama"), Pair("2", "Comedy"), RBrace>>] >>

SampleCharRows ==
    << CharRow(<<"1">>, "m1", "F", <<"1", "7", "0">>),
       CharRow(<<"2">>, "m1", "M", <<"t", "a", "l", "l">>),
       CharRow(<<"3">>, "m2", "M", <<"5", "1", "0">>) >>

InitProgram ==
    /\ prov = [called |-> FALSE, downloaded |-> FALSE, extracted |-> FALSE]
    /\ load = [attempted |-> FALSE, missing |-> FALSE, raised |-> "", constructed |-> FALSE]
    /\ movie_metadata = Unset
    /\ character_metadata = Unset
    /\ ret = NoCall

DatasetPresent ==
    dataDir = TRUE /\ archive = TRUE /\ movieFile = TRUE /\ charFile = TRUE

\* Any local state of the disk, the dataset files being files of DATA_DIR.
InitProvisioning ==
    /\ dataDir \in BOOLEAN
    /\ archive \in BOOLEAN
    /\ movieFile \in BOOLEAN
    /\ charFile \in BOOLEAN
    /\ (archive \/ movieFile \/ charFile) => dataDir
    /\ movieRows = SampleMovieRows
    /\ charRows = SampleCharRows
    /\ InitProgram

\* Any movie file, the rest of the dataset in place.
InitGenres ==
    /\ DatasetPresent
    /\ movieRows \in SeqsUpTo(MovieRowSet, MaxMovies)
    /\ charRows = SampleCharRows
    /\ InitProgram

\* Any character file, the rest of the dataset in place.
InitCharacters ==
    /\ DatasetPresent
    /\ movieRows = SampleMovieRows
    /\ charRows \in SeqsUpTo(CharRowSet, MaxChars)
    /\ InitProgram

Init == InitProvisioning \/ InitGenres \/ InitCharacters

Spec == Init /\ [][Next]_vars

SpecProvisioning == InitProvisioning /\ [][Next]_vars

SpecGenres == InitGenres /\ [][Next]_vars

SpecCharacters == InitCharacters /\ [][Next]_vars

-----------------------------------------------------------------------------
(* What the claims speak of, stated on the files and the loaded tables.    *)

IsCall(op) == ret.op = op

Indices(seq) == [i \in 1..Len(seq) |-> i]

Range(seq) == {seq[i] : i \in 1..Len(seq)}

Minimum(a, b) == IF a <= b THEN a ELSE b

\* The genre mapping a record decodes into; no entry when the field is
\* absent or does not decode into a mapping.
DecodedMapping(cell) ==
    IF IsNaN(cell) THEN <<>>
    ELSE LET lit == literal_eval(cell.s)
         IN  IF lit.raised \/ lit.type # "dict" THEN <<>> ELSE lit.items

DecodesIntoMapping(cell) ==
    ~IsNaN(cell) /\ ~literal_eval(cell.s).raised /\ literal_eval(cell.s).type = "dict"

GenreNames(rows) ==
    UNION {{DecodedMapping(rows[i].genres)[j].name :
                j \in 1..Len(DecodedMapping(rows[i].genres))} : i \in 1..Len(rows)}

Occurrences(rows, name) ==
    Cardinality(UNION {{<<i, j>> : j \in {k \in 1..Len(DecodedMapping(rows[i].genres)) :
                                            DecodedMapping(rows[i].genres)[k].name = name}} :
                       i \in 1..Len(rows)})

ValidN == IsInstanceInt(ret.N) /\ ret.N.i >= 0

ValidHeightCall ==
    /\ IsInstanceStr(ret.gender)
    /\ IsInstanceNumber(ret.min_height)
    /\ IsInstanceNumber(ret.max_height)

\* The rows of the character file actor_distributions is to return.
Retained(i, gender, lo, hi) ==
    /\ IsNumericText(charRows[i].actor_height)
    /\ lo <= NumericValue(charRows[i].actor_height)
    /\ NumericValue(charRows[i].actor_height) <= hi
    /\ gender # "All" => charRows[i].actor_gender = gender

RECURSIVE SumMovieCount(_)
SumMovieCount(rows) ==
    IF rows = <<>> THEN 0 ELSE rows[1].Movie_Count + SumMovieCount(Tail(rows))

ReturnedIndices == [j \in 1..Len(ret.value) |-> ret.value[j].index]

-----------------------------------------------------------------------------
(* Claims.                                                                 *)

\* C1: on a loaded movie table, movie_type(n) with an integer n >= 0 returns
\* exactly min(n, number of distinct genre names) rows, each a genre name with
\* the number of its occurrences among the values of the decoded mappings,
\* in non-increasing Count order, no genre left out having a larger Count.
C1_TopGenres ==
    (IsCall("movie_type") /\ ValidN /\ movie_metadata.set) =>
        LET rows == movie_metadata.rows
            out == ret.value
            names == GenreNames(rows)
        IN  /\ ret.outcome = "ok"
            /\ Len(out) = Minimum(ret.N.i, Cardinality(names))
            /\ \A i \in 1..Len(out) :
                /\ out[i].Genre \in names
                /\ out[i].Count = Occurrences(rows, out[i].Genre)
            /\ \A i, j \in 1..Len(out) : i < j =>
                out[i].Count >= out[j].Count /\ out[i].Genre # out[j].Genre
            /\ \A g \in names : (\A i \in 1..Len(out) : out[i].Genre # g) =>
                \A i \in 1..Len(out) : Occurrences(rows, g) <= out[i].Count

\* C2: movie_type(N) raises ValueError for every N that is not a non-negative
\* integer, before any movie record is decoded or tallied.
C2_RejectsInvalidN ==
    (IsCall("movie_type") /\ ~ValidN) => (ret.outcome = "ValueError" /\ ret.work = 0)

\* C3: actor_distributions(g, min_height, max_height) with valid arguments
\* returns exactly the records whose raw height coerces to a number within
\* [min_height, max_height] and, when g is not "All", whose gender equals g,
\* in their original order; no record whose height does not coerce, no error.
C3_HeightFilter ==
    (IsCall("actor_distributions") /\ ValidHeightCall /\ character_metadata.set) =>
        /\ ret.outcome = "ok"
        /\ ReturnedIndices =
            SelectSeq(Indices(charRows),
                      LAMBDA i : Retained(i, ret.gender.s, ret.min_height.i, ret.max_height.i))
        /\ \A j \in 1..Len(ret.value) :
            /\ ret.value[j].row.actor_height
                 = NumCell(NumericValue(charRows[ret.value[j].index].actor_height))
            /\ ret.value[j].row.actor_gender
                 = character_metadata.rows[ret.value[j].index].actor_gender

\* C3 witness: a call with a gender and a lower bound equal to a height kept
\* one record and left out one whose height does not coerce.
C3_Witness ==
    /\ IsCall("actor_distributions")
    /\ ret.outcome = "ok"
    /\ ret.gender.s = "F"
    /\ Len(ret.value) = 1
    /\ NumericValue(charRows[ret.value[1].index].actor_height) = ret.min_height.i
    /\ \E i \in 1..Len(charRows) :
        charRows[i].actor_gender = "F" /\ charRows[i].actor_height = <<"t", "a", "l", "l">>

\* C4: actor_distributions raises ValueError when gender is no string or
\* either height bound is no number, before any character record is read.
C4_RejectsInvalidArgs ==
    (IsCall("actor_distributions") /\ ~ValidHeightCall) =>
        (ret.outcome = "ValueError" /\ ret.work = 0 /\ ret.value = <<>>)

\* C4 witness: a call whose max_height alone is no number was rejected on a
\* loaded character table.
C4_Witness ==
    /\ IsCall("actor_distributions")
    /\ IsInstanceStr(ret.gender)
    /\ IsInstanceNumber(ret.min_height)
    /\ ~IsInstanceNumber(ret.max_height)
    /\ ret.outcome = "ValueError"
    /\ character_metadata.set
    /\ Len(character_metadata.rows) > 0

\* C5: in movie_type a record whose genres field is absent or does not decode
\* into a mapping never aborts the call: the result is the result over the
\* remaining records alone.
C5_SkipsUndecodable ==
    (IsCall("movie_type") /\ ValidN /\ movie_metadata.set) =>
        LET rest == SelectSeq(movie_metadata.rows, LAMBDA r : DecodesIntoMapping(r.genres))
            alone == MovieTypeRun(Frame(rest), ret.N)
        IN  ret.outcome = alone.outcome /\ ret.value = alone.value

\* C6: actor_count() returns one row per distinct per-movie actor count k,
\* k the number of character records of a movie, with Movie_Count the number
\* of movie ids that have exactly k records; the Movie_Count values sum to
\* the number of distinct movie ids.
C6_ActorCountHistogram ==
    (IsCall("actor_count") /\ character_metadata.set) =>
        LET rows == character_metadata.rows
            ids == {rows[i].freebase_movie_id.s :
                        i \in {k \in 1..Len(rows) : ~IsNaN(rows[k].freebase_movie_id)}}
            size(m) == Cardinality({i \in 1..Len(rows) :
                            ~IsNaN(rows[i].freebase_movie_id) /\ rows[i].freebase_movie_id.s = m})
            movies(k) == Cardinality({m \in ids : size(m) = k})
        IN  /\ ret.outcome = "ok"
            /\ {ret.value[i].Number_of_Actors : i \in 1..Len(ret.value)} = {size(m) : m \in ids}
            /\ \A i, j \in 1..Len(ret.value) :
                ret.value[i].Number_of_Actors = ret.value[j].Number_of_Actors => i = j
            /\ \A i \in 1..Len(ret.value) :
                ret.value[i].Movie_Count = movies(ret.value[i].Number_of_Actors)
            /\ SumMovieCount(ret.value) = Cardinality(ids)

\* C7: when either raw file is missing, constructing MovieDataset ends with an
\* error propagated to the caller, and no aggregator is ever invoked on an
\* object that holds only one, or neither, of the two tables.
C7_MissingFilePropagates ==
    /\ (load.attempted /\ load.missing) => (load.raised # "" /\ ~load.constructed)
    /\ ~IsCall("") => (movie_metadata.set /\ character_metadata.set)

\* C8: after any sequence of aggregator calls both tables are as they were
\* loaded, raw heights included, and the last call returned what the same
\* call returns on the tables as loaded.
C8_TablesUnchanged ==
    load.constructed =>
        LET loaded == load_data(movieFile, movieRows, charFile, charRows)
        IN  /\ movie_metadata = loaded.movie
            /\ character_metadata = loaded.character
            /\ IsCall("movie_type") =>
                /\ ret.outcome = MovieTypeRun(loaded.movie, ret.N).outcome
                /\ ret.value = MovieTypeRun(loaded.movie, ret.N).value
            /\ IsCall("actor_count") =>
                /\ ret.outcome = ActorCountRun(loaded.character).outcome
                /\ ret.value = ActorCountRun(loaded.character).value
            /\ IsCall("actor_distributions") =>
                LET again == ActorDistributionsRun(loaded.character, ret.gender,
                                                   ret.min_height, ret.max_height)
                IN  ret.outcome = again.outcome /\ ret.value = again.value

\* C8 witness: heights were coerced by a call on a table whose height column
\* is text, one of its fields numeric text.
C8_Witness ==
    /\ IsCall("actor_distributions")
    /\ ret.outcome = "ok"
    /\ Len(ret.value) > 0
    /\ \E i \in 1..Len(character_metadata.rows) :
        /\ character_metadata.rows[i].actor_height.t = "str"
        /\ IsNumericText(character_metadata.rows[i].actor_height.s)

\* The call actor_distributions("All", 0, 300) on the table the object holds.
AllHeights == ActorDistributionsRun(character_metadata, PyStr("All"), PyInt(0), PyInt(300))

IsFemaleCall ==
    /\ IsCall("actor_distributions")
    /\ ret.outcome = "ok"
    /\ ret.gender = PyStr("F")
    /\ ret.min_height = PyInt(0)
    /\ ret.max_height = PyInt(300)

\* C9 as claimed: actor_distributions("F", 0, 300) returns a subset of
\* actor_distributions("All", 0, 300), a strict one whenever some record whose
\* gender is not "F" has a numeric-coercible height.
C9_StrictSubsetAsClaimed ==
    IsFemaleCall =>
        /\ Range(ret.value) \subseteq Range(AllHeights.value)
        /\ (\E i \in 1..Len(charRows) :
                charRows[i].actor_gender # "F" /\ IsNumericText(charRows[i].actor_height))
            => Range(ret.value) # Range(AllHeights.value)

\* C9: actor_distributions("F", 0, 300) returns a subset of
\* actor_distributions("All", 0, 300), a strict one whenever some record whose
\* gender is not "F" has a height that coerces to a number within [0, 300].
C9_StrictSubset ==
    IsFemaleCall =>
        /\ Range(ret.value) \subseteq Range(AllHeights.value)
        /\ (\E i \in 1..Len(charRows) :
                /\ charRows[i].actor_gender # "F"
                /\ IsNumericText(charRows[i].actor_height)
                /\ NumericValue(charRows[i].actor_height) >= 0
                /\ NumericValue(charRows[i].actor_height) <= 300)
            => Range(ret.value) # Range(AllHeights.value)

\* C9 witness: the call for "F" returned a record, and a record of another
\* gender within the range stayed out.
C9_Witness ==
    /\ IsFemaleCall
    /\ Len(ret.value) = 1
    /\ \E i \in 1..Len(charRows) :
        charRows[i].actor_gender = "M" /\ charRows[i].actor_height = <<"1", "7", "0">>

\* C10: download_and_extract_data(), from any local state, ends with the
\* extracted dataset the Loader reads present, having downloaded the archive
\* when it was absent and extracted it when the dataset was not yet extracted;
\* once the dataset is present a call downloads and extracts nothing.
C10_ProvisionEnsuresDataset ==
    [][prov' # prov =>
        /\ movieFile' /\ charFile'
        /\ prov'.extracted = ~(movieFile /\ charFile)
        /\ prov'.downloaded = (~(movieFile /\ charFile) /\ ~archive)]_vars

====
